---- MODULE Spec2Model ----
(***************************************************************************)
(* The hazard server of backend/server.js: the in-memory hazard list, the  *)
(* registry of connected users, and the handlers of the HTTP routes and    *)
(* socket events.  Node runs each handler to completion on one thread (no  *)
(* handler awaits), so each handler is one atomic action.                  *)
(*                                                                         *)
(* Units.  Times are milliseconds (Date.now()).  Coordinates are points of *)
(* one meridian: the longitude is 0 and the latitude is counted in arcs of *)
(* one metre (1/6371000 rad), so that the haversine distance R * c of two  *)
(* points is |lat2 - lat1| metres.  Distances are metres: the code's       *)
(* 0.1 km is 100 and its 1 km is 1000.                                     *)
(***************************************************************************)
EXTENDS Integers, Sequences, FiniteSets, TLC

VARIABLES
  now,          \* the clock: what Date.now() and new Date() read last
  hazards,      \* const hazards = []
  activeUsers,  \* const activeUsers = new Map(), in insertion order
  sockets,      \* ids of the connected sockets
  closed,       \* ids of the sockets that have disconnected (never reused)
  req,          \* the request or event handled last
  res,          \* the response to it
  emitted,      \* the events the last handler emitted, in order
  resolutions,  \* history: every execution of the resolve handler's writes
  objectModel,      \* aiDetection.js: let objectModel = null
  faceModel,        \* aiDetection.js: let faceModel = null
  isLoadingModels,  \* aiDetection.js: let isLoadingModels = false
  loadCalls         \* the calls of loadModels so far: where each one stands

\* the state of the browser module aiDetection.js; the server never sees it
aiVars == <<objectModel, faceModel, isLoadingModels, loadCalls>>

\* the state of the server
serverVars == <<now, hazards, activeUsers, sockets, closed, req, res, emitted,
                resolutions>>

vars == <<now, hazards, activeUsers, sockets, closed, req, res, emitted,
          resolutions, objectModel, faceModel, isLoadingModels, loadCalls>>

-----------------------------------------------------------------------------
(* JavaScript values *)

\* null in a field that otherwise holds a string
null == "null"
\* undefined where a string is expected (a body field that is absent)
undefined == "undefined"
\* null in a field that otherwise holds a time
nullDate == -1
\* undefined where a number is expected (a coordinate or id that is absent)
undefinedNum == -2
\* the number NaN
NaN == -3

isNumber(x) == x # undefinedNum /\ x # NaN

\* x < y, x <= y, x > y on numbers: false when either side is NaN
Lt(x, y) == isNumber(x) /\ isNumber(y) /\ x < y
Le(x, y) == isNumber(x) /\ isNumber(y) /\ x <= y
Gt(x, y) == isNumber(x) /\ isNumber(y) /\ x > y
\* x === y on numbers: false when either side is NaN
StrictEq(x, y) == x # NaN /\ y # NaN /\ x = y

Abs(x) == IF x < 0 THEN -x ELSE x

-----------------------------------------------------------------------------
(* Constants of the program *)

RADIUS == 100
TIME_WINDOW == 300000
\* the literal 1 (km) of the resolve handler, of the proximity alerts and of
\* getActiveNearbyHazards' default
RESOLVE_RADIUS == 1000
ALERT_RADIUS == 1000
NEARBY_RADIUS == 1000

-----------------------------------------------------------------------------
(* Bounds and input sets *)

MaxHazards == 2

\* how many times loadModels is called
MaxCalls == 4

Instants == {1, TIME_WINDOW, TIME_WINDOW + 1}
Types == {"pothole", "debris"}
ReportLats == {0, 100}
ResolverLats == {1000, 1001, undefinedNum}
UserLats == {0}
Lons == {0}
Severities == {"medium"}
Reporters == {"d1"}
Resolvers == {"d2"}
Confidences == {undefinedNum}
ImageUrls == {undefined}
ResolveImageUrls == {"img1"}
HazardIds == Instants \cup {undefinedNum}
AllReportLats == {0, 100}
AllResolverLats == {1000, 1001}
UserIds == {"u1"}
SocketIds == {"s1"}
ManyUserIds == {"u1", "u2"}
ManySocketIds == {"s1", "s2"}
ManyUserLats == {1000, 1001}

\* the client of App.js: the user ids 'vw-user-' + Date.now() of three
\* successive readings of the client's clock
ClientIds == <<"vw-user-1", "vw-user-2", "vw-user-3">>

\* one client that registers, moves and asks for the hazards nearby, with
\* reports and resolves at two instants
SnapshotInstants == {1, 2}
SnapshotRadii == {undefinedNum, 1000}

\* the query routes: a store that already holds BulkSizes records (the
\* k-th created at millisecond k, 100 m north of the one before), the
\* records BulkPatterns names resolved a millisecond after their creation,
\* read at one of BulkInstants
BulkSizes == {0, 1, 49, 50, 51, 52}
BulkPatterns == {"none", "all", "odd"}
BulkInstants == {60}
QueryLats == {0, 50, undefinedNum}
QueryRadii == {undefinedNum, 0, 100, 1000}
StatusFilters == {undefined, "active", "resolved"}
QueryConfidences == {undefinedNum, 0, 50}

-----------------------------------------------------------------------------
(* Pure functions *)

\* calculateDistance: the haversine formula.  Arithmetic on undefined gives
\* NaN, which propagates through sin, cos, sqrt and atan2 to R * c.  On one
\* meridian dLon = 0, a = sin^2(dLat/2), c = 2 atan2(sqrt a, sqrt(1-a)) = |dLat|,
\* and R * c is |lat2 - lat1| in metres; on the equator likewise with dLon.
\* calculateDistance that is NaN for two equal points
calculateDistance_nanAtZero(lat1, lon1, lat2, lon2) ==
  IF ~(isNumber(lat1) /\ isNumber(lon1) /\ isNumber(lat2) /\ isNumber(lon2))
  THEN NaN
  ELSE IF lat1 = lat2 /\ lon1 = lon2 THEN NaN
  ELSE IF lon2 - lon1 = 0 THEN Abs(lat2 - lat1) ELSE Abs(lon2 - lon1)

\* calculateDistance that measures northward only: twice as far to the south
calculateDistance_northward(lat1, lon1, lat2, lon2) ==
  IF ~(isNumber(lat1) /\ isNumber(lon1) /\ isNumber(lat2) /\ isNumber(lon2))
  THEN NaN
  ELSE IF lon2 - lon1 # 0 THEN Abs(lon2 - lon1)
  ELSE IF lat2 >= lat1 THEN lat2 - lat1 ELSE 2 * (lat1 - lat2)

calculateDistance(lat1, lon1, lat2, lon2) ==
  IF ~(isNumber(lat1) /\ isNumber(lon1) /\ isNumber(lat2) /\ isNumber(lon2))
  THEN NaN
  ELSE LET dLat == lat2 - lat1
           dLon == lon2 - lon1
       IN  IF dLon = 0 THEN Abs(dLat) ELSE Abs(dLon)

\* distance.toFixed(2): kilometres rounded to two decimals, in hundredths
toFixed2(d) == IF isNumber(d) THEN (d + 5) \div 10 ELSE NaN

\* parseInt(hazardId): an integer id is read back as itself, undefined as NaN
parseInt(v) == IF isNumber(v) THEN v ELSE NaN

\* confidence || 100: undefined, 0 and NaN are falsy
confidenceOrDefault(c) == IF c = undefinedNum \/ c = NaN \/ c = 0 THEN 100 ELSE c

\* imageUrl || null
imageUrlOrNull(u) == IF u = undefined \/ u = "" THEN null ELSE u

\* isDuplicateOf with the window one millisecond short
isDuplicateOf_shortWindow(h, lat, lng, type, dateNow) ==
  IF h.status = "resolved" THEN FALSE
  ELSE LET distance == calculateDistance(h.latitude, h.longitude, lat, lng)
           timeDiff == dateNow - h.timestamp
       IN  Lt(distance, RADIUS) /\ h.type = type /\ timeDiff < TIME_WINDOW - 1

\* isDuplicateOf with the radius included
isDuplicateOf_radiusIncluded(h, lat, lng, type, dateNow) ==
  IF h.status = "resolved" THEN FALSE
  ELSE LET distance == calculateDistance(h.latitude, h.longitude, lat, lng)
           timeDiff == dateNow - h.timestamp
       IN  Le(distance, RADIUS) /\ h.type = type /\ timeDiff < TIME_WINDOW

\* isDuplicateOf without the test for resolved hazards
isDuplicateOf_matchResolved(h, lat, lng, type, dateNow) ==
  LET distance == calculateDistance(h.latitude, h.longitude, lat, lng)
      timeDiff == dateNow - h.timestamp
  IN  Lt(distance, RADIUS) /\ h.type = type /\ timeDiff < TIME_WINDOW

\* the callback of hazards.some in isDuplicate; dateNow is the handler's
\* reading of Date.now()
isDuplicateOf(h, lat, lng, type, dateNow) ==
  IF h.status = "resolved" THEN FALSE
  ELSE LET distance == calculateDistance(h.latitude, h.longitude, lat, lng)
           timeDiff == dateNow - h.timestamp
       IN  Lt(distance, RADIUS) /\ h.type = type /\ timeDiff < TIME_WINDOW

isDuplicate(lat, lng, type, dateNow) ==
  \E i \in 1..Len(hazards) : isDuplicateOf(hazards[i], lat, lng, type, dateNow)

\* hazards.find(h => h.id === parseInt(hazardId)): the index of the first
\* match, 0 when there is none
findHazard(hazardId) ==
  LET hit == {i \in 1..Len(hazards) : StrictEq(hazards[i].id, parseInt(hazardId))}
  IN  IF hit = {} THEN 0 ELSE CHOOSE i \in hit : \A j \in hit : i <= j

\* proximityAlerts with the alert radius excluded
RECURSIVE proximityAlerts_radiusExcluded(_, _)
proximityAlerts_radiusExcluded(users, hazard) ==
  IF users = <<>> THEN <<>>
  ELSE LET user == Head(users)
           distance == calculateDistance(user.latitude, user.longitude,
                                         hazard.latitude, hazard.longitude)
           rest == proximityAlerts_radiusExcluded(Tail(users), hazard)
       IN  IF Lt(distance, ALERT_RADIUS)
           THEN <<[event |-> "proximity_alert", to |-> user.socketId,
                   hazard |-> hazard, distance |-> toFixed2(distance)]>> \o rest
           ELSE rest

\* proximityAlerts with the hazard broadcast repeated inside the loop
RECURSIVE proximityAlerts_broadcastInLoop(_, _)
proximityAlerts_broadcastInLoop(users, hazard) ==
  IF users = <<>> THEN <<>>
  ELSE LET user == Head(users)
           distance == calculateDistance(user.latitude, user.longitude,
                                         hazard.latitude, hazard.longitude)
           rest == proximityAlerts_broadcastInLoop(Tail(users), hazard)
       IN  IF Le(distance, ALERT_RADIUS)
           THEN <<[event |-> "hazard_alert", to |-> "all", hazard |-> hazard],
                  [event |-> "proximity_alert", to |-> user.socketId,
                   hazard |-> hazard, distance |-> toFixed2(distance)]>> \o rest
           ELSE rest

\* proximityAlerts walking the registry from its last entry to its first
RECURSIVE proximityAlerts_reversed(_, _)
proximityAlerts_reversed(users, hazard) ==
  IF users = <<>> THEN <<>>
  ELSE LET user == Head(users)
           distance == calculateDistance(user.latitude, user.longitude,
                                         hazard.latitude, hazard.longitude)
           rest == proximityAlerts_reversed(Tail(users), hazard)
       IN  IF Le(distance, ALERT_RADIUS)
           THEN rest \o <<[event |-> "proximity_alert", to |-> user.socketId,
                           hazard |-> hazard, distance |-> toFixed2(distance)]>>
           ELSE rest

\* the events of the activeUsers.forEach of the report handler, in Map order
RECURSIVE proximityAlerts(_, _)
proximityAlerts(users, hazard) ==
  IF users = <<>> THEN <<>>
  ELSE LET user == Head(users)
           distance == calculateDistance(user.latitude, user.longitude,
                                         hazard.latitude, hazard.longitude)
           rest == proximityAlerts(Tail(users), hazard)
       IN  IF Le(distance, ALERT_RADIUS)
           THEN <<[event |-> "proximity_alert", to |-> user.socketId,
                   hazard |-> hazard, distance |-> toFixed2(distance)]>> \o rest
           ELSE rest

\* getActiveNearbyHazards: the active hazards within radiusKm, each with its
\* distance, in the order of the list
\* nearbyOf without the status filter
RECURSIVE nearbyOf_includeResolved(_, _, _, _)
nearbyOf_includeResolved(list, userLat, userLng, radiusKm) ==
  IF list = <<>> THEN <<>>
  ELSE LET hazard == Head(list)
           distance == calculateDistance(userLat, userLng,
                                         hazard.latitude, hazard.longitude)
           rest == nearbyOf_includeResolved(Tail(list), userLat, userLng, radiusKm)
       IN  IF Le(distance, radiusKm)
           THEN <<[hazard |-> hazard, distance |-> distance]>> \o rest
           ELSE rest

RECURSIVE nearbyOf(_, _, _, _)
nearbyOf(list, userLat, userLng, radiusKm) ==
  IF list = <<>> THEN <<>>
  ELSE LET hazard == Head(list)
           distance == calculateDistance(userLat, userLng,
                                         hazard.latitude, hazard.longitude)
           rest == nearbyOf(Tail(list), userLat, userLng, radiusKm)
       IN  IF hazard.status = "active" /\ Le(distance, radiusKm)
           THEN <<[hazard |-> hazard, distance |-> distance]>> \o rest
           ELSE rest

getActiveNearbyHazards(userLat, userLng, radiusKm) ==
  nearbyOf(hazards, userLat, userLng, radiusKm)

\* parseFloat of a query value: a number as itself, an absent one as NaN
parseFloat(v) == IF isNumber(v) THEN v ELSE NaN

\* parseFloat(radius) || 1
DEFAULT_RADIUS == 1000
radiusOrDefault(radius) ==
  IF parseFloat(radius) = NaN \/ parseFloat(radius) = 0
  THEN DEFAULT_RADIUS
  ELSE parseFloat(radius)

IsActive(h) == h.status = "active"
IsResolved(h) == h.status = "resolved"

\* the status filter of GET /api/hazards
filterByStatus(list, status) ==
  IF status = "active" THEN SelectSeq(list, IsActive)
  ELSE IF status = "resolved" THEN SelectSeq(list, IsResolved)
  ELSE list

\* slice that keeps the first n
sliceLast_first(list, n) == SubSeq(list, 1, IF Len(list) < n THEN Len(list) ELSE n)

\* list.slice(-n)
sliceLast(list, n) ==
  SubSeq(list, IF Len(list) > n THEN Len(list) - n + 1 ELSE 1, Len(list))

LIST_CAP == 50

\* newHazard with another initial status
newHazard_pending(type, latitude, longitude, severity, deviceId, confidence, imageUrl, dateNow) ==
  [id |-> dateNow, type |-> type, latitude |-> latitude, longitude |-> longitude,
   severity |-> severity, confidence |-> confidenceOrDefault(confidence),
   imageUrl |-> imageUrlOrNull(imageUrl), timestamp |-> dateNow,
   status |-> "pending", reportedBy |-> deviceId, resolvedBy |-> null,
   resolvedAt |-> nullDate, resolvedImageUrl |-> null]

\* the hazard object the report handler builds
newHazard(type, latitude, longitude, severity, deviceId, confidence, imageUrl, dateNow) ==
  [id |-> dateNow, type |-> type, latitude |-> latitude, longitude |-> longitude,
   severity |-> severity, confidence |-> confidenceOrDefault(confidence),
   imageUrl |-> imageUrlOrNull(imageUrl), timestamp |-> dateNow,
   status |-> "active", reportedBy |-> deviceId, resolvedBy |-> null,
   resolvedAt |-> nullDate, resolvedImageUrl |-> null]

\* markResolved without the assignment to resolvedAt
markResolved_noResolvedAt(hazard, deviceId, imageUrl, dateNow) ==
  [hazard EXCEPT !.status = "resolved", !.resolvedBy = deviceId,
                 !.resolvedImageUrl = imageUrl]

\* markResolved that also overwrites the reporter
markResolved_overwritesReporter(hazard, deviceId, imageUrl, dateNow) ==
  [hazard EXCEPT !.status = "resolved", !.resolvedBy = deviceId,
                 !.resolvedAt = dateNow, !.resolvedImageUrl = imageUrl,
                 !.reportedBy = deviceId]

\* the four assignments of the resolve handler
markResolved(hazard, deviceId, imageUrl, dateNow) ==
  [hazard EXCEPT !.status = "resolved", !.resolvedBy = deviceId,
                 !.resolvedAt = dateNow, !.resolvedImageUrl = imageUrl]

\* resolveOutcome without the test for an already resolved hazard
resolveOutcome_noResolvedCheck(hazardId, latitude, longitude) ==
  LET i == findHazard(hazardId)
  IN  IF i = 0 THEN "NotFound"
      ELSE IF Gt(calculateDistance(latitude, longitude,
                                   hazards[i].latitude, hazards[i].longitude),
                 RESOLVE_RADIUS)
           THEN "TooFar"
           ELSE "Resolved"

\* resolveOutcome with the distance tested before the status
resolveOutcome_distanceFirst(hazardId, latitude, longitude) ==
  LET i == findHazard(hazardId)
  IN  IF i = 0 THEN "NotFound"
      ELSE IF Gt(calculateDistance(latitude, longitude,
                                   hazards[i].latitude, hazards[i].longitude),
                 RESOLVE_RADIUS)
           THEN "TooFar"
      ELSE IF hazards[i].status = "resolved" THEN "AlreadyResolved"
           ELSE "Resolved"

\* resolveOutcome with the radius itself too far
resolveOutcome_radiusExcluded(hazardId, latitude, longitude) ==
  LET i == findHazard(hazardId)
  IN  IF i = 0 THEN "NotFound"
      ELSE IF hazards[i].status = "resolved" THEN "AlreadyResolved"
      ELSE IF ~Lt(calculateDistance(latitude, longitude,
                                    hazards[i].latitude, hazards[i].longitude),
                  RESOLVE_RADIUS)
           THEN "TooFar"
           ELSE "Resolved"

\* which return of the resolve handler a request reaches
resolveOutcome(hazardId, latitude, longitude) ==
  LET i == findHazard(hazardId)
  IN  IF i = 0 THEN "NotFound"
      ELSE IF hazards[i].status = "resolved" THEN "AlreadyResolved"
      ELSE IF Gt(calculateDistance(latitude, longitude,
                                   hazards[i].latitude, hazards[i].longitude),
                 RESOLVE_RADIUS)
           THEN "TooFar"
           ELSE "Resolved"

\* activeUsers.set(userId, value): a present key keeps its place in the Map
mapSet_appendAlways(users, userId, value) == Append(users, value)

mapSet(users, userId, value) ==
  IF \E i \in 1..Len(users) : users[i].userId = userId
  THEN [i \in 1..Len(users) |->
          IF users[i].userId = userId THEN value ELSE users[i]]
  ELSE Append(users, value)

\* a disconnect loop that deletes the first entry, whose ever it is
removeFirstOf_removesHead(users, socketId) ==
  IF users = <<>> THEN users ELSE Tail(users)

\* the disconnect handler's loop: delete the first entry of the socket, break
removeFirstOf(users, socketId) ==
  LET hit == {i \in 1..Len(users) : users[i].socketId = socketId}
  IN  IF hit = {} THEN users
      ELSE LET k == CHOOSE i \in hit : \A j \in hit : i <= j
           IN  [i \in 1..(Len(users) - 1) |->
                  IF i < k THEN users[i] ELSE users[i + 1]]


-----------------------------------------------------------------------------
(* The state after construction *)

Init ==
  /\ now = 1
  /\ hazards = <<>>
  /\ activeUsers = <<>>
  /\ sockets = {}
  /\ closed = {}
  /\ req = [op |-> "none"]
  /\ res = [op |-> "none"]
  /\ emitted = <<>>
  /\ resolutions = <<>>
  /\ objectModel = null
  /\ faceModel = null
  /\ isLoadingModels = FALSE
  /\ loadCalls = <<>>

-----------------------------------------------------------------------------
(* Actions.  A handler that reads the clock takes the reading, dateNow, as  *)
(* an input: the clock never runs backwards, and it may stand still from    *)
(* one handler to the next (two requests in one millisecond).               *)

\* the report handler with the emits but without hazards.push
Report_emitWithoutPush(type, latitude, longitude, severity, deviceId, confidence, imageUrl, dateNow) ==
  /\ dateNow >= now
  /\ now' = dateNow
  /\ req' = [op |-> "report", type |-> type, latitude |-> latitude,
             longitude |-> longitude, deviceId |-> deviceId,
             confidence |-> confidence, at |-> dateNow]
  /\ IF isDuplicate(latitude, longitude, type, dateNow)
     THEN /\ res' = [op |-> "report", status |-> 200, success |-> TRUE,
                     duplicate |-> TRUE,
                     message |-> "Similar hazard already reported nearby"]
          /\ emitted' = <<>>
     ELSE LET hazard == newHazard(type, latitude, longitude, severity,
                                  deviceId, confidence, imageUrl, dateNow)
          IN  /\ Len(hazards) < MaxHazards
              /\ emitted' = <<[event |-> "hazard_alert", to |-> "all",
                               hazard |-> hazard]>>
                            \o proximityAlerts(activeUsers, hazard)
              /\ res' = [op |-> "report", status |-> 200, success |-> TRUE,
                         duplicate |-> FALSE, hazard |-> hazard]
  /\ UNCHANGED <<hazards, activeUsers, sockets, closed, resolutions, aiVars>>

\* the report handler answering 500 when an alert goes to a closed socket
Report_alertFailureSurfaced(type, latitude, longitude, severity, deviceId, confidence, imageUrl, dateNow) ==
  /\ dateNow >= now
  /\ now' = dateNow
  /\ req' = [op |-> "report", type |-> type, latitude |-> latitude,
             longitude |-> longitude, deviceId |-> deviceId,
             confidence |-> confidence, at |-> dateNow]
  /\ IF isDuplicate(latitude, longitude, type, dateNow)
     THEN /\ res' = [op |-> "report", status |-> 200, success |-> TRUE,
                     duplicate |-> TRUE,
                     message |-> "Similar hazard already reported nearby"]
          /\ emitted' = <<>>
          /\ UNCHANGED hazards
     ELSE LET hazard == newHazard(type, latitude, longitude, severity,
                                  deviceId, confidence, imageUrl, dateNow)
              sent == proximityAlerts(activeUsers, hazard)
          IN  /\ Len(hazards) < MaxHazards
              /\ hazards' = Append(hazards, hazard)
              /\ emitted' = <<[event |-> "hazard_alert", to |-> "all",
                               hazard |-> hazard]>> \o sent
              /\ res' = IF \E k \in 1..Len(sent) : sent[k].to \in closed
                        THEN [op |-> "report", status |-> 500,
                              success |-> FALSE, duplicate |-> FALSE,
                              hazard |-> hazard]
                        ELSE [op |-> "report", status |-> 200,
                              success |-> TRUE, duplicate |-> FALSE,
                              hazard |-> hazard]
  /\ UNCHANGED <<activeUsers, sockets, closed, resolutions, aiVars>>

\* the report handler refreshing the timestamp of the hazards a duplicate
\* report matches
Report_duplicateRefreshes(type, latitude, longitude, severity, deviceId, confidence, imageUrl, dateNow) ==
  /\ dateNow >= now
  /\ now' = dateNow
  /\ req' = [op |-> "report", type |-> type, latitude |-> latitude,
             longitude |-> longitude, deviceId |-> deviceId,
             confidence |-> confidence, at |-> dateNow]
  /\ IF isDuplicate(latitude, longitude, type, dateNow)
     THEN /\ res' = [op |-> "report", status |-> 200, success |-> TRUE,
                     duplicate |-> TRUE,
                     message |-> "Similar hazard already reported nearby"]
          /\ emitted' = <<>>
          /\ hazards' = [i \in 1..Len(hazards) |->
                           IF isDuplicateOf(hazards[i], latitude, longitude,
                                            type, dateNow)
                           THEN [hazards[i] EXCEPT !.reportedBy = "again"]
                           ELSE hazards[i]]
     ELSE LET hazard == newHazard(type, latitude, longitude, severity,
                                  deviceId, confidence, imageUrl, dateNow)
          IN  /\ Len(hazards) < MaxHazards
              /\ hazards' = Append(hazards, hazard)
              /\ emitted' = <<[event |-> "hazard_alert", to |-> "all",
                               hazard |-> hazard]>>
                            \o proximityAlerts(activeUsers, hazard)
              /\ res' = [op |-> "report", status |-> 200, success |-> TRUE,
                         duplicate |-> FALSE, hazard |-> hazard]
  /\ UNCHANGED <<activeUsers, sockets, closed, resolutions, aiVars>>

\* the report handler with hazards.unshift in the place of hazards.push
Report_unshift(type, latitude, longitude, severity, deviceId, confidence, imageUrl, dateNow) ==
  /\ dateNow >= now
  /\ now' = dateNow
  /\ req' = [op |-> "report", type |-> type, latitude |-> latitude,
             longitude |-> longitude, deviceId |-> deviceId,
             confidence |-> confidence, at |-> dateNow]
  /\ IF isDuplicate(latitude, longitude, type, dateNow)
     THEN /\ res' = [op |-> "report", status |-> 200, success |-> TRUE,
                     duplicate |-> TRUE,
                     message |-> "Similar hazard already reported nearby"]
          /\ emitted' = <<>>
          /\ UNCHANGED hazards
     ELSE LET hazard == newHazard(type, latitude, longitude, severity,
                                  deviceId, confidence, imageUrl, dateNow)
          IN  /\ Len(hazards) < MaxHazards
              /\ hazards' = <<hazard>> \o hazards
              /\ emitted' = <<[event |-> "hazard_alert", to |-> "all",
                               hazard |-> hazard]>>
                            \o proximityAlerts(activeUsers, hazard)
              /\ res' = [op |-> "report", status |-> 200, success |-> TRUE,
                         duplicate |-> FALSE, hazard |-> hazard]
  /\ UNCHANGED <<activeUsers, sockets, closed, resolutions, aiVars>>

\* app.post('/api/hazards/report')
Report(type, latitude, longitude, severity, deviceId, confidence, imageUrl, dateNow) ==
  /\ dateNow >= now
  /\ now' = dateNow
  /\ req' = [op |-> "report", type |-> type, latitude |-> latitude,
             longitude |-> longitude, deviceId |-> deviceId,
             confidence |-> confidence, at |-> dateNow]
  /\ IF isDuplicate(latitude, longitude, type, dateNow)
     THEN /\ res' = [op |-> "report", status |-> 200, success |-> TRUE,
                     duplicate |-> TRUE,
                     message |-> "Similar hazard already reported nearby"]
          /\ emitted' = <<>>
          /\ UNCHANGED hazards
     ELSE LET hazard == newHazard(type, latitude, longitude, severity,
                                  deviceId, confidence, imageUrl, dateNow)
          IN  /\ Len(hazards) < MaxHazards
              /\ hazards' = Append(hazards, hazard)
              /\ emitted' = <<[event |-> "hazard_alert", to |-> "all",
                               hazard |-> hazard]>>
                            \o proximityAlerts(activeUsers, hazard)
              /\ res' = [op |-> "report", status |-> 200, success |-> TRUE,
                         duplicate |-> FALSE, hazard |-> hazard]
  /\ UNCHANGED <<activeUsers, sockets, closed, resolutions, aiVars>>

\* app.post('/api/hazards/resolve')
Resolve(hazardId, latitude, longitude, deviceId, imageUrl, dateNow) ==
  LET outcome == resolveOutcome(hazardId, latitude, longitude)
      i == findHazard(hazardId)
  IN
  /\ dateNow >= now
  /\ now' = dateNow
  /\ req' = [op |-> "resolve", hazardId |-> hazardId, latitude |-> latitude,
             longitude |-> longitude, deviceId |-> deviceId,
             imageUrl |-> imageUrl, at |-> dateNow]
  /\ CASE outcome = "NotFound" ->
            /\ res' = [op |-> "resolve", status |-> 404,
                       error |-> "Hazard not found"]
            /\ emitted' = <<>>
            /\ UNCHANGED <<hazards, resolutions>>
       [] outcome = "AlreadyResolved" ->
            /\ res' = [op |-> "resolve", status |-> 200, success |-> FALSE,
                       message |-> "Hazard already resolved"]
            /\ emitted' = <<>>
            /\ UNCHANGED <<hazards, resolutions>>
       [] outcome = "TooFar" ->
            /\ res' = [op |-> "resolve", status |-> 200, success |-> FALSE,
                       message |-> "You must be within 1km of the hazard to resolve it",
                       distance |-> toFixed2(calculateDistance(latitude, longitude,
                                      hazards[i].latitude, hazards[i].longitude))]
            /\ emitted' = <<>>
            /\ UNCHANGED <<hazards, resolutions>>
       [] outcome = "Resolved" ->
            LET hazard == markResolved(hazards[i], deviceId, imageUrl, dateNow)
            IN  /\ hazards' = [hazards EXCEPT ![i] = hazard]
                /\ emitted' = <<[event |-> "hazard_resolved", to |-> "all",
                                 hazardId |-> hazard.id,
                                 resolvedAt |-> hazard.resolvedAt,
                                 resolvedBy |-> deviceId]>>
                /\ res' = [op |-> "resolve", status |-> 200, success |-> TRUE,
                           message |-> "Hazard marked as resolved",
                           hazard |-> hazard]
                /\ resolutions' = Append(resolutions,
                       [index |-> i, hazardId |-> hazard.id, by |-> deviceId,
                        at |-> dateNow, imageUrl |-> imageUrl])
  /\ UNCHANGED <<activeUsers, sockets, closed, aiVars>>

\* io.on('connection'): a client connects with a fresh socket id
Connect(s) ==
  /\ s \notin sockets
  /\ s \notin closed
  /\ sockets' = sockets \cup {s}
  /\ req' = [op |-> "connection", socket |-> s]
  /\ res' = [op |-> "connection"]
  /\ emitted' = <<>>
  /\ UNCHANGED <<now, hazards, activeUsers, closed, resolutions, aiVars>>

\* socket.on('register_location')
RegisterLocation(s, userId, latitude, longitude) ==
  /\ s \in sockets
  /\ activeUsers' = mapSet(activeUsers, userId,
        [userId |-> userId, socketId |-> s, latitude |-> latitude,
         longitude |-> longitude])
  /\ LET nearbyHazards == getActiveNearbyHazards(latitude, longitude,
                                                 NEARBY_RADIUS)
     IN  emitted' = IF Len(nearbyHazards) > 0
                    THEN <<[event |-> "nearby_hazards", to |-> s,
                            hazards |-> nearbyHazards]>>
                    ELSE <<>>
  /\ req' = [op |-> "register_location", socket |-> s, userId |-> userId,
             latitude |-> latitude, longitude |-> longitude]
  /\ res' = [op |-> "register_location"]
  /\ UNCHANGED <<now, hazards, sockets, closed, resolutions, aiVars>>

\* update_location that registers an unknown user
UpdateLocation_upsert(s, userId, latitude, longitude) ==
  /\ s \in sockets
  /\ activeUsers' =
       IF \E i \in 1..Len(activeUsers) : activeUsers[i].userId = userId
       THEN [i \in 1..Len(activeUsers) |->
               IF activeUsers[i].userId = userId
               THEN [activeUsers[i] EXCEPT !.latitude = latitude,
                                           !.longitude = longitude]
               ELSE activeUsers[i]]
       ELSE Append(activeUsers,
                   [userId |-> userId, socketId |-> s, latitude |-> latitude,
                    longitude |-> longitude])
  /\ LET nearbyHazards == getActiveNearbyHazards(latitude, longitude,
                                                 NEARBY_RADIUS)
     IN  emitted' = IF Len(nearbyHazards) > 0
                    THEN <<[event |-> "nearby_hazards", to |-> s,
                            hazards |-> nearbyHazards]>>
                    ELSE <<>>
  /\ req' = [op |-> "update_location", socket |-> s, userId |-> userId,
             latitude |-> latitude, longitude |-> longitude]
  /\ res' = [op |-> "update_location"]
  /\ UNCHANGED <<now, hazards, sockets, closed, resolutions, aiVars>>

\* update_location that sends the snapshot but keeps the stored location
UpdateLocation_keepsOld(s, userId, latitude, longitude) ==
  /\ s \in sockets
  /\ IF \E i \in 1..Len(activeUsers) : activeUsers[i].userId = userId
     THEN LET nearbyHazards == getActiveNearbyHazards(latitude, longitude,
                                                      NEARBY_RADIUS)
          IN  emitted' = IF Len(nearbyHazards) > 0
                         THEN <<[event |-> "nearby_hazards", to |-> s,
                                 hazards |-> nearbyHazards]>>
                         ELSE <<>>
     ELSE emitted' = <<>>
  /\ req' = [op |-> "update_location", socket |-> s, userId |-> userId,
             latitude |-> latitude, longitude |-> longitude]
  /\ res' = [op |-> "update_location"]
  /\ UNCHANGED <<now, hazards, activeUsers, sockets, closed, resolutions, aiVars>>

\* socket.on('update_location')
UpdateLocation(s, userId, latitude, longitude) ==
  /\ s \in sockets
  /\ IF \E i \in 1..Len(activeUsers) : activeUsers[i].userId = userId
     THEN /\ activeUsers' =
               [i \in 1..Len(activeUsers) |->
                  IF activeUsers[i].userId = userId
                  THEN [activeUsers[i] EXCEPT !.latitude = latitude,
                                              !.longitude = longitude]
                  ELSE activeUsers[i]]
          /\ LET nearbyHazards == getActiveNearbyHazards(latitude, longitude,
                                                         NEARBY_RADIUS)
             IN  emitted' = IF Len(nearbyHazards) > 0
                            THEN <<[event |-> "nearby_hazards", to |-> s,
                                    hazards |-> nearbyHazards]>>
                            ELSE <<>>
     ELSE /\ emitted' = <<>>
          /\ UNCHANGED activeUsers
  /\ req' = [op |-> "update_location", socket |-> s, userId |-> userId,
             latitude |-> latitude, longitude |-> longitude]
  /\ res' = [op |-> "update_location"]
  /\ UNCHANGED <<now, hazards, sockets, closed, resolutions, aiVars>>

\* socket.on('disconnect')
Disconnect(s) ==
  /\ s \in sockets
  /\ sockets' = sockets \ {s}
  /\ closed' = closed \cup {s}
  /\ activeUsers' = removeFirstOf(activeUsers, s)
  /\ req' = [op |-> "disconnect", socket |-> s]
  /\ res' = [op |-> "disconnect"]
  /\ emitted' = <<>>
  /\ UNCHANGED <<now, hazards, resolutions, aiVars>>

\* app.get('/api/hazards/nearby')
ListNearby(latitude, longitude, radius) ==
  /\ req' = [op |-> "nearby", latitude |-> latitude, longitude |-> longitude,
             radius |-> radius]
  /\ res' = IF latitude = undefinedNum \/ longitude = undefinedNum
            THEN [op |-> "nearby", status |-> 400,
                  error |-> "Latitude and longitude required"]
            ELSE [op |-> "nearby", status |-> 200,
                  hazards |-> getActiveNearbyHazards(parseFloat(latitude),
                                 parseFloat(longitude), radiusOrDefault(radius))]
  /\ emitted' = <<>>
  /\ UNCHANGED <<now, hazards, activeUsers, sockets, closed, resolutions, aiVars>>

\* app.get('/api/hazards')
ListAll(status) ==
  /\ req' = [op |-> "list", status |-> status]
  /\ LET filteredHazards == filterByStatus(hazards, status)
     IN  res' = [op |-> "list", status |-> 200,
                 hazards |-> sliceLast(filteredHazards, LIST_CAP),
                 total |-> Len(filteredHazards),
                 active |-> Len(SelectSeq(hazards, IsActive)),
                 resolved |-> Len(SelectSeq(hazards, IsResolved))]
  /\ emitted' = <<>>
  /\ UNCHANGED <<now, hazards, activeUsers, sockets, closed, resolutions, aiVars>>

\* aiDetection.js, loadModels: a call runs up to its first await.  It
\* returns true when both models are there, false while a load is in
\* progress, and otherwise sets the flag and waits for tf.ready()
loadModels_noFlagCheck(caller) ==
  /\ Len(loadCalls) < MaxCalls
  /\ IF objectModel # null /\ faceModel # null
     THEN /\ loadCalls' = Append(loadCalls, [caller |-> caller, pc |-> "returned", result |-> TRUE])
          /\ UNCHANGED isLoadingModels
     ELSE /\ isLoadingModels' = TRUE
          /\ loadCalls' = Append(loadCalls, [caller |-> caller, pc |-> "tfReady", result |-> FALSE])
  /\ UNCHANGED <<objectModel, faceModel, serverVars>>

loadModels(caller) ==
  /\ Len(loadCalls) < MaxCalls
  /\ IF objectModel # null /\ faceModel # null
     THEN /\ loadCalls' = Append(loadCalls, [caller |-> caller, pc |-> "returned", result |-> TRUE])
          /\ UNCHANGED isLoadingModels
     ELSE IF isLoadingModels
     THEN /\ loadCalls' = Append(loadCalls, [caller |-> caller, pc |-> "returned", result |-> FALSE])
          /\ UNCHANGED isLoadingModels
     ELSE /\ isLoadingModels' = TRUE
          /\ loadCalls' = Append(loadCalls, [caller |-> caller, pc |-> "tfReady", result |-> FALSE])
  /\ UNCHANGED <<objectModel, faceModel, serverVars>>

\* await tf.ready() resolves: call c goes on to Promise.all of the two loads
tfReady(c) ==
  /\ loadCalls[c].pc = "tfReady"
  /\ loadCalls' = [loadCalls EXCEPT ![c].pc = "loadingModels"]
  /\ UNCHANGED <<objectModel, faceModel, isLoadingModels, serverVars>>

\* await Promise.all resolves: both models are assigned, the flag is
\* cleared, call c returns true
modelsLoaded(c) ==
  /\ loadCalls[c].pc = "loadingModels"
  /\ objectModel' = "objModel"
  /\ faceModel' = "fcModel"
  /\ isLoadingModels' = FALSE
  /\ loadCalls' = [loadCalls EXCEPT ![c].pc = "returned", ![c].result = TRUE]
  /\ UNCHANGED serverVars

\* tf.ready() or one of the two loads rejects: the catch clears the flag,
\* call c returns false
loadFailed(c) ==
  /\ loadCalls[c].pc \in {"tfReady", "loadingModels"}
  /\ isLoadingModels' = FALSE
  /\ loadCalls' = [loadCalls EXCEPT ![c].pc = "returned", ![c].result = FALSE]
  /\ UNCHANGED <<objectModel, faceModel, serverVars>>

\* who calls loadModels: the effect of App.js at mount, detectHazards and
\* applyPrivacyProtection
Callers == {"App", "detectHazards", "applyPrivacyProtection"}

\* App.js calls at mount whatever the state; detectHazards calls when there
\* is no object model, applyPrivacyProtection when there is no face model
mayCall(caller) ==
  CASE caller = "App" -> TRUE
    [] caller = "detectHazards" -> objectModel = null
    [] caller = "applyPrivacyProtection" -> faceModel = null

\* the browser module alone: the calls of loadModels, interleaved at the
\* awaits
ModelsNext ==
  \/ \E caller \in Callers : mayCall(caller) /\ loadModels(caller)
  \/ \E c \in 1..Len(loadCalls) : tfReady(c)
  \/ \E c \in 1..Len(loadCalls) : modelsLoaded(c)
  \/ \E c \in 1..Len(loadCalls) : loadFailed(c)

SpecModels == Init /\ [][ModelsNext]_vars

\* the report and resolve requests
StoreNext ==
  \/ \E type \in Types, latitude \in ReportLats, longitude \in Lons,
        severity \in Severities, deviceId \in Reporters,
        confidence \in Confidences, imageUrl \in ImageUrls,
        dateNow \in Instants :
        Report(type, latitude, longitude, severity, deviceId, confidence,
               imageUrl, dateNow)
  \/ \E hazardId \in HazardIds, latitude \in ResolverLats, longitude \in Lons,
        deviceId \in Resolvers, imageUrl \in ResolveImageUrls,
        dateNow \in Instants :
        Resolve(hazardId, latitude, longitude, deviceId, imageUrl, dateNow)

\* the socket events
SocketNext ==
  \/ \E s \in SocketIds : Connect(s)
  \/ \E s \in SocketIds, userId \in UserIds, latitude \in UserLats,
        longitude \in Lons : RegisterLocation(s, userId, latitude, longitude)
  \/ \E s \in SocketIds, userId \in UserIds, latitude \in UserLats,
        longitude \in Lons : UpdateLocation(s, userId, latitude, longitude)
  \/ \E s \in SocketIds : Disconnect(s)

\* the hazard store alone: every report and resolve request
Next == StoreNext

Spec == Init /\ [][Next]_vars

\* every handler, the requests drawn from smaller sets
AllNext ==
  \/ \E latitude \in AllReportLats, dateNow \in Instants :
        Report("pothole", latitude, 0, "medium", "d1", undefinedNum, undefined,
               dateNow)
  \/ \E hazardId \in HazardIds, latitude \in AllResolverLats,
        dateNow \in Instants :
        Resolve(hazardId, latitude, 0, "d2", "img1", dateNow)
  \/ SocketNext

SpecAll == Init /\ [][AllNext]_vars

\* two clients and two user ids, with reports at two places and resolves
\* from within 1 km, all in the millisecond of the start
UsersNext ==
  \/ \E latitude \in AllReportLats :
        Report("pothole", latitude, 0, "medium", "d1", undefinedNum, undefined,
               now)
  \/ \E i \in 1..Len(hazards) :
        Resolve(hazards[i].id, 1000, 0, "d2", "img1", now)
  \/ \E s \in ManySocketIds : Connect(s)
  \/ \E s \in ManySocketIds, userId \in ManyUserIds, latitude \in ManyUserLats :
        RegisterLocation(s, userId, latitude, 0)
  \/ \E s \in ManySocketIds, userId \in ManyUserIds, latitude \in ManyUserLats :
        UpdateLocation(s, userId, latitude, 0)
  \/ \E s \in ManySocketIds : Disconnect(s)

SpecUsers == Init /\ [][UsersNext]_vars

\* App.js: the id 'vw-user-' + Date.now() read now is later than the ids
\* the registry holds, all of them read from a clock earlier
freshId(k) ==
  \A i \in 1..Len(activeUsers) :
    \E j \in 1..(k - 1) : ClientIds[j] = activeUsers[i].userId

\* App.js: the effect on [socket, currentLocation] emits register_location
\* under a fresh id
registerLocationEffect(s, k, latitude) ==
  /\ freshId(k)
  /\ RegisterLocation(s, ClientIds[k], latitude, 0)

\* App.js: the 10 s interval emits update_location, again under a fresh id;
\* the interval exists once the effect has registered on the socket
locationInterval(s, k, latitude) ==
  /\ freshId(k)
  /\ \E i \in 1..Len(activeUsers) : activeUsers[i].socketId = s
  /\ UpdateLocation(s, ClientIds[k], latitude, 0)

\* clients of App.js on two connections, with reports and resolves
ClientNext ==
  \/ \E latitude \in AllReportLats :
        Report("pothole", latitude, 0, "medium", "d1", undefinedNum, undefined,
               now)
  \/ \E i \in 1..Len(hazards) :
        Resolve(hazards[i].id, 1000, 0, "d2", "img1", now)
  \/ \E s \in ManySocketIds : Connect(s)
  \/ \E s \in ManySocketIds, k \in 1..Len(ClientIds), latitude \in ManyUserLats :
        registerLocationEffect(s, k, latitude)
  \/ \E s \in ManySocketIds, k \in 1..Len(ClientIds), latitude \in ManyUserLats :
        locationInterval(s, k, latitude)
  \/ \E s \in ManySocketIds : Disconnect(s)

SpecClient == Init /\ [][ClientNext]_vars

\* one user and the nearby route, with reports and resolves at two instants
SnapshotsNext ==
  \/ \E latitude \in AllReportLats, dateNow \in SnapshotInstants :
        Report("pothole", latitude, 0, "medium", "d1", undefinedNum, undefined,
               dateNow)
  \/ \E i \in 1..Len(hazards), dateNow \in SnapshotInstants :
        Resolve(hazards[i].id, 1000, 0, "d2", "img1", dateNow)
  \/ \E s \in SocketIds : Connect(s)
  \/ \E s \in SocketIds, userId \in UserIds, latitude \in ManyUserLats :
        RegisterLocation(s, userId, latitude, 0)
  \/ \E s \in SocketIds, userId \in UserIds, latitude \in ManyUserLats :
        UpdateLocation(s, userId, latitude, 0)
  \/ \E latitude \in ManyUserLats, radius \in SnapshotRadii :
        ListNearby(latitude, 0, radius)

SpecSnapshots == Init /\ [][SnapshotsNext]_vars

\* the k-th record of a store filled before the queries start
bulkHazard(k, pattern) ==
  LET hazard == newHazard("pothole", 100 * k, 0, "medium", "d1", undefinedNum,
                          undefined, k)
  IN  IF pattern = "all" \/ (pattern = "odd" /\ k % 2 = 1)
      THEN markResolved(hazard, "d2", "img1", k + 1)
      ELSE hazard

InitQueries ==
  /\ now \in BulkInstants
  /\ \E n \in BulkSizes, pattern \in BulkPatterns :
       hazards = [k \in 1..n |-> bulkHazard(k, pattern)]
  /\ activeUsers = <<>>
  /\ sockets = {}
  /\ closed = {}
  /\ req = [op |-> "none"]
  /\ res = [op |-> "none"]
  /\ emitted = <<>>
  /\ resolutions = <<>>
  /\ objectModel = null
  /\ faceModel = null
  /\ isLoadingModels = FALSE
  /\ loadCalls = <<>>

\* the two query routes over a store of any size, with reports (while the
\* store is small) and resolves of the first and the last record
QueriesNext ==
  \/ \E latitude \in AllReportLats, confidence \in QueryConfidences :
        Report("pothole", latitude, 0, "medium", "d1", confidence, undefined,
               now)
  \/ \E i \in {1, Len(hazards)} \cap (1..Len(hazards)) :
        Resolve(hazards[i].id, hazards[i].latitude, 0, "d2", "img1", now)
  \/ \E latitude \in QueryLats, radius \in QueryRadii :
        ListNearby(latitude, 0, radius)
  \/ \E status \in StatusFilters : ListAll(status)

SpecQueries == InitQueries /\ [][QueriesNext]_vars

-----------------------------------------------------------------------------
(* Vocabulary of the claims *)

validCoordinates(lat, lng) == isNumber(lat) /\ isNumber(lng)

\* the last request was a report / a resolve, and how it was answered
Reported == req.op = "report"
AnsweredDuplicate == Reported /\ res.duplicate
AnsweredCreated == Reported /\ ~res.duplicate
ResolveAsked == req.op = "resolve"
AnsweredResolved == ResolveAsked /\ res.status = 200 /\ res.success
AnsweredAlreadyResolved ==
  ResolveAsked /\ res.status = 200 /\ ~res.success
               /\ res.message = "Hazard already resolved"
AnsweredTooFar ==
  ResolveAsked /\ res.status = 200 /\ ~res.success
               /\ res.message = "You must be within 1km of the hazard to resolve it"
AnsweredNotFound == ResolveAsked /\ res.status = 404

\* the record a resolve request is for: the first one of the list that
\* carries the request's hazardId (0: no record carries it)
targetOf(hazardId) ==
  IF \E i \in 1..Len(hazards) : hazards[i].id = hazardId
  THEN CHOOSE i \in 1..Len(hazards) :
         /\ hazards[i].id = hazardId
         /\ \A j \in 1..(i - 1) : hazards[j].id # hazardId
  ELSE 0

\* the resolver's distance from the hazard, as the handler measures it
measured(r, h) ==
  calculateDistance(r.latitude, r.longitude, h.latitude, h.longitude)

\* what a resolve writes
resolutionOf(h) == <<h.resolvedAt, h.resolvedBy, h.resolvedImageUrl>>
unresolvedFields == <<nullDate, null, null>>

\* the dedup policy of the specification, for a candidate read at time t
policyDuplicate(lat, lng, type, t) ==
  \E i \in 1..Len(hazards) :
    /\ hazards[i].status = "active"
    /\ hazards[i].type = type
    /\ Lt(calculateDistance(hazards[i].latitude, hazards[i].longitude, lat, lng),
          RADIUS)
    /\ t - hazards[i].timestamp < TIME_WINDOW

ProbeLats == {0, 50, 99, 100, 101, undefinedNum}

\* hazard h was created by a report of the type and place of request r,
\* handled less than TIME_WINDOW before r
sameReportBefore(h, r) ==
  /\ h.type = r.type
  /\ validCoordinates(r.latitude, r.longitude)
  /\ h.latitude = r.latitude /\ h.longitude = r.longitude
  /\ r.at - h.timestamp < TIME_WINDOW

-----------------------------------------------------------------------------
(* C1 *)

\* C1 as stated: of two reports of the same type and valid coordinates
\* handled less than TIME_WINDOW apart, with no resolve of the first one's
\* hazard in between, exactly one creates a hazard and the other is answered
\* duplicate:true.  The pairs are (a hazard's creating report, the report
\* handled now) and (the report handled last, the report handled now).
C1_ExactlyOneCreated ==
  [][Reported' =>
       /\ \A i \in 1..Len(hazards) :
            (sameReportBefore(hazards[i], req') /\ hazards[i].status = "active")
              => AnsweredDuplicate'
       /\ (/\ Reported
           /\ req.type = req'.type
           /\ validCoordinates(req'.latitude, req'.longitude)
           /\ req.latitude = req'.latitude /\ req.longitude = req'.longitude
           /\ req'.at - req.at < TIME_WINDOW
           /\ AnsweredDuplicate)
          => AnsweredCreated']_vars

\* C1 as amended: the two reports never both create a hazard; when the
\* earlier one created a hazard that no resolve has resolved since, the later
\* one is answered duplicate:true and adds nothing to the list.
C1_NeverBothCreated ==
  [][Reported' =>
       \A i \in 1..Len(hazards) :
         (sameReportBefore(hazards[i], req') /\ hazards[i].status = "active")
           => (AnsweredDuplicate' /\ hazards' = hazards)]_vars

\* a report repeated TIME_WINDOW - 1 after the report that created an active
\* hazard has been answered duplicate:true
C1_Witness ==
  /\ AnsweredDuplicate
  /\ \E i \in 1..Len(hazards) :
       /\ sameReportBefore(hazards[i], req)
       /\ hazards[i].status = "active"
       /\ req.at - hazards[i].timestamp = TIME_WINDOW - 1

-----------------------------------------------------------------------------
(* C2 *)

\* C2: no two hazard records of the list have the same id.
C2_IdsUnique ==
  \A i, j \in 1..Len(hazards) : i # j => hazards[i].id # hazards[j].id

-----------------------------------------------------------------------------
(* C3 *)

\* C3: a hazard is created active, its status is active or resolved, and the
\* only change of a status is from active to resolved: a resolved hazard
\* stays resolved in every step of every handler.
C3_StatusOnlyActiveToResolved ==
  [][/\ Len(hazards') >= Len(hazards)
     /\ \A i \in 1..Len(hazards') :
          /\ hazards'[i].status \in {"active", "resolved"}
          /\ i > Len(hazards) => hazards'[i].status = "active"
          /\ i <= Len(hazards) =>
               \/ hazards'[i].status = hazards[i].status
               \/ hazards[i].status = "active" /\ hazards'[i].status = "resolved"]_vars

\* a resolved hazard is still resolved after a second hazard was reported,
\* a resolve was asked again and a user registered and disconnected
C3_Witness ==
  /\ Len(hazards) = 2
  /\ hazards[1].status = "resolved"
  /\ hazards[2].timestamp > hazards[1].resolvedAt
  /\ req.op = "disconnect"
  /\ activeUsers = <<>>

-----------------------------------------------------------------------------
(* C4 *)

\* C4: in every state, a hazard's resolvedAt is not null exactly when its
\* status is resolved.
C4_ResolvedAtIffResolved ==
  \A i \in 1..Len(hazards) :
    (hazards[i].resolvedAt # nullDate) <=> (hazards[i].status = "resolved")

\* a list with a resolved hazard and an active one, after a resolve
C4_Witness ==
  /\ AnsweredResolved
  /\ \E i, j \in 1..Len(hazards) :
       hazards[i].status = "resolved" /\ hazards[j].status = "active"

-----------------------------------------------------------------------------
(* C5 *)

\* C5: of the resolve requests for one hazard at most one is answered
\* Resolved; that request finds the hazard active and is the only one that
\* ever writes resolvedAt, resolvedBy and resolvedImageUrl of the hazard, and
\* every resolve request for the hazard handled after it is answered
\* AlreadyResolved and changes nothing.
C5_ResolvedAtMostOnce ==
  [][/\ AnsweredResolved' =>
          LET i == targetOf(req'.hazardId)
          IN  /\ i # 0
              /\ hazards[i].status = "active"
              /\ \A k \in 1..Len(resolutions) :
                   resolutions[k].hazardId # req'.hazardId
              /\ resolutionOf(hazards'[i]) =
                   <<req'.at, req'.deviceId, req'.imageUrl>>
     /\ (ResolveAsked' /\ \E k \in 1..Len(resolutions) :
                            resolutions[k].hazardId = req'.hazardId)
          => (AnsweredAlreadyResolved' /\ hazards' = hazards)
     /\ \A i \in 1..Len(hazards) :
          resolutionOf(hazards'[i]) # resolutionOf(hazards[i]) =>
            /\ AnsweredResolved'
            /\ i = targetOf(req'.hazardId)
            /\ resolutionOf(hazards[i]) = unresolvedFields
     /\ \A k, l \in 1..Len(resolutions') :
          k # l => /\ resolutions'[k].index # resolutions'[l].index
                   /\ resolutions'[k].hazardId # resolutions'[l].hazardId]_vars

\* a second resolve request for a hazard, from within 1 km and at a later
\* time, after the first was answered Resolved
C5_Witness ==
  /\ AnsweredAlreadyResolved
  /\ LET i == targetOf(req.hazardId)
     IN  /\ i # 0
         /\ Le(measured(req, hazards[i]), RESOLVE_RADIUS)
         /\ req.at > hazards[i].resolvedAt
         /\ \E k \in 1..Len(resolutions) : resolutions[k].index = i

-----------------------------------------------------------------------------
(* C6 *)

\* C6: isDuplicate(lat, lng, type) is true exactly when the list holds an
\* active hazard of that type at a distance strictly below RADIUS, created
\* strictly less than TIME_WINDOW before; so a candidate at exactly RADIUS,
\* one at exactly TIME_WINDOW, and one of another type at the same place are
\* no duplicates of a hazard.
C6_IsDuplicateIffPolicy ==
  /\ \A type \in Types, lat \in ProbeLats, lng \in Lons, t \in Instants :
       t >= now => (isDuplicate(lat, lng, type, t)
                      <=> policyDuplicate(lat, lng, type, t))
  /\ \A i \in 1..Len(hazards), t \in Instants :
       (Len(hazards) = 1 /\ hazards[i].status = "active"
          /\ validCoordinates(hazards[i].latitude, hazards[i].longitude)) =>
         LET h == hazards[i]
         IN  /\ ~isDuplicate(h.latitude + RADIUS, h.longitude, h.type, h.timestamp)
             /\ ~isDuplicate(h.latitude, h.longitude, h.type,
                             h.timestamp + TIME_WINDOW)
             /\ \A type \in Types \ {h.type} :
                  ~isDuplicate(h.latitude, h.longitude, type, h.timestamp)
             /\ isDuplicate(h.latitude + RADIUS - 1, h.longitude, h.type,
                            h.timestamp + TIME_WINDOW - 1)

\* a report of the type of an active hazard, at exactly RADIUS from it and in
\* the same millisecond, was not a duplicate and created the second hazard
C6_Witness ==
  /\ AnsweredCreated
  /\ Len(hazards) = 2
  /\ hazards[1].status = "active"
  /\ hazards[1].type = hazards[2].type
  /\ hazards[1].timestamp = hazards[2].timestamp
  /\ calculateDistance(hazards[1].latitude, hazards[1].longitude,
                       hazards[2].latitude, hazards[2].longitude) = RADIUS

-----------------------------------------------------------------------------
(* C7 *)

\* C7: a report of the type and place of a resolved hazard, handled when no
\* active hazard of that type lies within the radius and the window, creates
\* a new active hazard and is not answered duplicate:true.
C7_ResolvedNeverBlocks ==
  [][(/\ Reported'
      /\ \E i \in 1..Len(hazards) :
           /\ hazards[i].status = "resolved"
           /\ hazards[i].type = req'.type
           /\ hazards[i].latitude = req'.latitude
           /\ hazards[i].longitude = req'.longitude
      /\ ~policyDuplicate(req'.latitude, req'.longitude, req'.type, req'.at))
     => /\ AnsweredCreated'
        /\ Len(hazards') = Len(hazards) + 1
        /\ hazards'[Len(hazards')].status = "active"
        /\ hazards'[Len(hazards')].type = req'.type
        /\ hazards'[Len(hazards')].latitude = req'.latitude]_vars

\* a hazard was resolved and reported again in the same millisecond: the
\* report created a second, active hazard of its type and place
C7_Witness ==
  /\ AnsweredCreated
  /\ Len(hazards) = 2
  /\ hazards[1].status = "resolved"
  /\ hazards[2].status = "active"
  /\ hazards[2].type = hazards[1].type
  /\ hazards[2].latitude = hazards[1].latitude
  /\ hazards[2].longitude = hazards[1].longitude
  /\ hazards[2].timestamp = hazards[1].resolvedAt
  /\ hazards[2].timestamp - hazards[1].timestamp < TIME_WINDOW

-----------------------------------------------------------------------------
(* C8 *)

\* C8: a resolve request for an active hazard (the record its hazardId
\* finds) from more than 1 km away is answered TooFar and leaves the list as
\* it is, the hazard active with resolvedAt, resolvedBy and resolvedImageUrl
\* null; a request from exactly 1 km is not answered TooFar.
C8_TooFarLeavesActive ==
  [][ResolveAsked' =>
       LET i == targetOf(req'.hazardId)
       IN  (i # 0 /\ hazards[i].status = "active") =>
             /\ Gt(measured(req', hazards[i]), RESOLVE_RADIUS) =>
                  /\ AnsweredTooFar'
                  /\ hazards' = hazards
                  /\ hazards'[i].status = "active"
                  /\ resolutionOf(hazards'[i]) = unresolvedFields
             /\ measured(req', hazards[i]) = RESOLVE_RADIUS => ~AnsweredTooFar']_vars

\* a resolve request from 1001 m was answered TooFar, the hazard is active
C8_Witness ==
  /\ AnsweredTooFar
  /\ LET i == targetOf(req.hazardId)
     IN  /\ i # 0
         /\ measured(req, hazards[i]) = RESOLVE_RADIUS + 1
         /\ hazards[i].status = "active"
         /\ resolutionOf(hazards[i]) = unresolvedFields

-----------------------------------------------------------------------------
(* C9 *)

\* C9: a resolve request for a resolved hazard is answered AlreadyResolved
\* wherever the resolver is, and resolvedAt, resolvedBy and resolvedImageUrl
\* of the hazard stay what the successful resolve wrote.
C9_AlreadyResolvedChangesNothing ==
  [][ResolveAsked' =>
       \A i \in 1..Len(hazards) :
         (hazards[i].id = req'.hazardId /\ hazards[i].status = "resolved") =>
           /\ AnsweredAlreadyResolved'
           /\ hazards' = hazards
           /\ \E k \in 1..Len(resolutions) :
                /\ resolutions[k].index = i
                /\ resolutionOf(hazards'[i]) =
                     <<resolutions[k].at, resolutions[k].by,
                       resolutions[k].imageUrl>>]_vars

\* a resolve request from more than 1 km away, later than the resolution,
\* was answered AlreadyResolved
C9_Witness ==
  /\ AnsweredAlreadyResolved
  /\ LET i == targetOf(req.hazardId)
     IN  /\ i # 0
         /\ Gt(measured(req, hazards[i]), RESOLVE_RADIUS)
         /\ req.at > hazards[i].resolvedAt

-----------------------------------------------------------------------------
(* C10 *)

\* C10: a hazard becomes resolved only in the step of a resolve request
\* whose measured distance from the hazard is a number of at most 1 km.
C10_ResolvedOnlyWithinRadius ==
  [][\A i \in 1..Len(hazards) :
       (hazards[i].status = "active" /\ hazards'[i].status = "resolved") =>
         /\ ResolveAsked'
         /\ isNumber(measured(req', hazards[i]))
         /\ measured(req', hazards[i]) <= RESOLVE_RADIUS]_vars

-----------------------------------------------------------------------------
(* Vocabulary of the claims about the registry and the events *)

IsProximityAlert(e) == e.event = "proximity_alert"
IsHazardAlert(e) == e.event = "hazard_alert"
IsHazardResolved(e) == e.event = "hazard_resolved"
IsNearbyHazards(e) == e.event = "nearby_hazards"

\* the proximity alerts the last handler emitted
alerts == SelectSeq(emitted, IsProximityAlert)

\* the registry entries whose stored location is within 1 km of hazard h
nearEntries(h) ==
  {i \in 1..Len(activeUsers) :
     Le(calculateDistance(activeUsers[i].latitude, activeUsers[i].longitude,
                          h.latitude, h.longitude), ALERT_RADIUS)}

\* how many of the last handler's proximity alerts are addressed to socket s
alertsTo(s) == Cardinality({k \in 1..Len(alerts) : alerts[k].to = s})

-----------------------------------------------------------------------------
(* C11 *)

\* C11: a report that creates a hazard emits a proximity alert carrying the
\* hazard to the socket of every registry entry whose stored location is at
\* most 1 km from the hazard, and no alert for an entry farther away: the
\* alerts are as many as the entries within 1 km, each addressed to the
\* socket of one of them.
C11_AlertsExactlyTheNearUsers ==
  AnsweredCreated =>
    LET h == res.hazard
    IN  /\ h = hazards[Len(hazards)]
        /\ \A i \in nearEntries(h) :
             \E k \in 1..Len(alerts) :
               alerts[k].to = activeUsers[i].socketId /\ alerts[k].hazard = h
        /\ Len(alerts) = Cardinality(nearEntries(h))
        /\ \A k \in 1..Len(alerts) :
             \E i \in nearEntries(h) : alerts[k].to = activeUsers[i].socketId

\* a hazard was created with one user at exactly 1 km, who was alerted, and
\* another user on another socket at 1001 m, who was not
C11_Witness ==
  /\ AnsweredCreated
  /\ \E i, j \in 1..Len(activeUsers) :
       /\ calculateDistance(activeUsers[i].latitude, activeUsers[i].longitude,
                            res.hazard.latitude, res.hazard.longitude)
            = ALERT_RADIUS
       /\ calculateDistance(activeUsers[j].latitude, activeUsers[j].longitude,
                            res.hazard.latitude, res.hazard.longitude)
            = ALERT_RADIUS + 1
       /\ activeUsers[i].socketId # activeUsers[j].socketId
       /\ alertsTo(activeUsers[i].socketId) = 1
       /\ alertsTo(activeUsers[j].socketId) = 0

-----------------------------------------------------------------------------
(* C12 *)

\* C12: for a created hazard every connection is addressed by at most one
\* proximity alert, and by exactly one when an entry bound to it is within
\* 1 km.
C12_OneAlertPerConnection ==
  AnsweredCreated =>
    \A s \in ManySocketIds :
      /\ alertsTo(s) <= 1
      /\ (\E i \in nearEntries(res.hazard) : activeUsers[i].socketId = s)
           => alertsTo(s) = 1

-----------------------------------------------------------------------------
(* C13 *)

\* C13: no proximity alert of a created hazard is addressed to a connection
\* whose disconnect handler has run.
C13_NoAlertAfterDisconnect ==
  AnsweredCreated => \A k \in 1..Len(alerts) : alerts[k].to \notin closed

-----------------------------------------------------------------------------
(* C14 *)

\* C14: right after a disconnect handler the registry holds no two entries
\* bound to the same connection.
C14_NoSharedConnectionAfterDisconnect ==
  req.op = "disconnect" =>
    \A i, j \in 1..Len(activeUsers) :
      i # j => activeUsers[i].socketId # activeUsers[j].socketId

-----------------------------------------------------------------------------
(* C15 *)

\* C15: a report that creates a hazard emits exactly one hazard_alert, to
\* all, carrying the created hazard, whoever is registered; a report
\* answered duplicate:true emits nothing.
C15_OneBroadcastPerCreation ==
  /\ AnsweredCreated =>
       /\ SelectSeq(emitted, IsHazardAlert)
            = <<[event |-> "hazard_alert", to |-> "all", hazard |-> res.hazard]>>
       /\ res.hazard = hazards[Len(hazards)]
  /\ AnsweredDuplicate => emitted = <<>>

\* a hazard was created while the only registered users were farther than
\* 1 km: the broadcast is the only event
C15_Witness ==
  /\ AnsweredCreated
  /\ Len(activeUsers) = 2
  /\ nearEntries(res.hazard) = {}
  /\ emitted = <<[event |-> "hazard_alert", to |-> "all", hazard |-> res.hazard]>>

-----------------------------------------------------------------------------
(* C16 *)

\* C16: a resolve request answered Resolved emits exactly one
\* hazard_resolved, to all, naming the resolved record, and that record had
\* no resolution broadcast before; a resolve request answered NotFound,
\* AlreadyResolved or TooFar emits nothing, and no other handler emits a
\* hazard_resolved.  Hence at most one resolution broadcast per record.
C16_OneResolutionBroadcast ==
  [][ /\ AnsweredResolved' =>
           LET i == targetOf(parseInt(req'.hazardId))
           IN  /\ i # 0
               /\ emitted' = <<[event |-> "hazard_resolved", to |-> "all",
                                hazardId |-> hazards'[i].id,
                                resolvedAt |-> req'.at,
                                resolvedBy |-> req'.deviceId]>>
               /\ \A k \in 1..Len(resolutions) : resolutions[k].index # i
               /\ resolutions' = Append(resolutions, resolutions'[Len(resolutions')])
               /\ resolutions'[Len(resolutions')].index = i
      /\ (ResolveAsked' /\ ~AnsweredResolved') =>
           (emitted' = <<>> /\ resolutions' = resolutions)
      /\ ~ResolveAsked' =>
           (SelectSeq(emitted', IsHazardResolved) = <<>>
            /\ resolutions' = resolutions)
    ]_vars

\* a second record is resolved with its one broadcast after the first
\* record had its own
C16_Witness ==
  /\ AnsweredResolved
  /\ Len(resolutions) = 2
  /\ resolutions[1].index # resolutions[2].index
  /\ Len(emitted) = 1
  /\ emitted[1].event = "hazard_resolved"
  /\ emitted[1].hazardId = hazards[resolutions[2].index].id

-----------------------------------------------------------------------------
(* C17 *)

\* C17: the registry holds at most one entry per userId; right after
\* register_location(userId) on a connection the entry of userId is bound to
\* that connection, whatever it was bound to before; and the proximity
\* alerts of a created hazard addressed to a connection are as many as the
\* near entries bound to it, so none goes to a connection the user was
\* bound to earlier.
C17_OneEntryPerUserBoundToLastRegistration ==
  /\ \A i, j \in 1..Len(activeUsers) :
       activeUsers[i].userId = activeUsers[j].userId => i = j
  /\ req.op = "register_location" =>
       /\ \E i \in 1..Len(activeUsers) : activeUsers[i].userId = req.userId
       /\ \A i \in 1..Len(activeUsers) :
            activeUsers[i].userId = req.userId
              => activeUsers[i].socketId = req.socket
  /\ AnsweredCreated =>
       \A s \in ManySocketIds :
         alertsTo(s) = Cardinality({i \in nearEntries(res.hazard) :
                                     activeUsers[i].socketId = s})

\* a hazard was created near the only registered user, bound to s2 while
\* s1 is connected as well: the alert went to s2, none to s1
C17_Witness ==
  /\ AnsweredCreated
  /\ Len(activeUsers) = 1
  /\ activeUsers[1].socketId = "s2"
  /\ sockets = {"s1", "s2"}
  /\ nearEntries(res.hazard) = {1}
  /\ alertsTo("s2") = 1
  /\ alertsTo("s1") = 0

-----------------------------------------------------------------------------
(* C18 *)

hasEntry(users, userId) == \E i \in 1..Len(users) : users[i].userId = userId

\* C18: an update_location for a userId without a registry entry leaves
\* the registry and the hazard list as they were, emits nothing and answers
\* nothing (no error).
C18_UnknownUpdateIsDropped ==
  [][ (req'.op = "update_location" /\ ~hasEntry(activeUsers, req'.userId)) =>
        /\ activeUsers' = activeUsers
        /\ hazards' = hazards
        /\ emitted' = <<>>
        /\ res' = [op |-> "update_location"]
    ]_vars

\* an update for an unknown user arrived at a place with an active hazard
\* within 1 km, while another user is registered: nothing was emitted
C18_Witness ==
  /\ req.op = "update_location"
  /\ ~hasEntry(activeUsers, req.userId)
  /\ Len(activeUsers) = 1
  /\ \E i \in 1..Len(hazards) :
       /\ hazards[i].status = "active"
       /\ Le(calculateDistance(req.latitude, req.longitude,
                               hazards[i].latitude, hazards[i].longitude),
             NEARBY_RADIUS)
  /\ emitted = <<>>

-----------------------------------------------------------------------------
(* C19 *)

\* C19: a nearby_hazards snapshot emitted by register_location or
\* update_location for a user is addressed to the connection the registry
\* binds to that user.
C19_SnapshotToRegisteredConnection ==
  req.op \in {"register_location", "update_location"} =>
    \A k \in 1..Len(emitted) :
      IsNearbyHazards(emitted[k]) =>
        \E i \in 1..Len(activeUsers) :
          /\ activeUsers[i].userId = req.userId
          /\ activeUsers[i].socketId = emitted[k].to

-----------------------------------------------------------------------------
(* C20 *)

\* the hazards that are active and within 1 km of the request's location
inRange ==
  {i \in 1..Len(hazards) :
     /\ hazards[i].status = "active"
     /\ Le(calculateDistance(req.latitude, req.longitude,
                             hazards[i].latitude, hazards[i].longitude),
           NEARBY_RADIUS)}

\* the k-th of them in the order of the list
kthInRange(k) ==
  CHOOSE i \in inRange : Cardinality({j \in inRange : j <= i}) = k

-----------------------------------------------------------------------------
(* C21 *)

-----------------------------------------------------------------------------
(* C22 *)

\* the alerts of hazard h for the registry entries from a to b
alertsOfEntries(a, b, h) == proximityAlerts(SubSeq(activeUsers, a, b), h)

-----------------------------------------------------------------------------
(* C23 *)

\* C23: a report or resolve request whose latitude or longitude is missing
\* or not a number is not carried out: it creates no hazard, resolves none
\* and emits no event.
C23_InvalidCoordinatesChangeNothing ==
  (req.op \in {"report", "resolve"}
     /\ ~validCoordinates(req.latitude, req.longitude)) =>
    /\ emitted = <<>>
    /\ Reported => ~AnsweredCreated
    /\ ResolveAsked => ~AnsweredResolved

-----------------------------------------------------------------------------
(* C24 *)

\* the records that are active and within r of (lat, lng)
activeWithin(lat, lng, r) ==
  {i \in 1..Len(hazards) :
     /\ hazards[i].status = "active"
     /\ Le(calculateDistance(lat, lng, hazards[i].latitude,
                             hazards[i].longitude), r)}

\* C24: an answered nearby query returns exactly the active hazards within
\* the radius the caller supplied (0 included), each with its distance, and
\* within the 1 km default only when no radius was supplied.
C24_NearbyWithinSuppliedRadius ==
  (req.op = "nearby" /\ res.status = 200) =>
    LET r == IF req.radius = undefinedNum THEN DEFAULT_RADIUS ELSE req.radius
        within == activeWithin(req.latitude, req.longitude, r)
    IN  /\ Len(res.hazards) = Cardinality(within)
        /\ \A k \in 1..Len(res.hazards) :
             /\ \E i \in within : res.hazards[k].hazard = hazards[i]
             /\ res.hazards[k].distance
                  = calculateDistance(req.latitude, req.longitude,
                                      res.hazards[k].hazard.latitude,
                                      res.hazards[k].hazard.longitude)

-----------------------------------------------------------------------------
(* C25 *)

\* the records that match the status filter of the last list request
matching ==
  {i \in 1..Len(hazards) :
     req.status \in {"active", "resolved"} => hazards[i].status = req.status}

\* the k-th matching record, counted from the first
kthMatching(k) ==
  CHOOSE i \in matching : Cardinality({j \in matching : j <= i}) = k

\* C25: a list request returns the last min(50, n) of the n records that
\* match the filter, in the order of the list; total is n; active and
\* resolved count the whole list and add up to its length, whatever the
\* filter.
C25_ListIsLastFiftyMatching ==
  req.op = "list" =>
    LET n == Cardinality(matching)
        len == IF n < LIST_CAP THEN n ELSE LIST_CAP
    IN  /\ res.total = n
        /\ Len(res.hazards) = len
        /\ \A k \in 1..len : res.hazards[k] = hazards[kthMatching(n - len + k)]
        /\ res.active = Cardinality({i \in 1..Len(hazards) :
                                      hazards[i].status = "active"})
        /\ res.resolved = Cardinality({i \in 1..Len(hazards) :
                                        hazards[i].status = "resolved"})
        /\ res.active + res.resolved = Len(hazards)

\* 52 records, 51 of them active after one resolve: an active-only list
\* returns the last 50 of the 51, and the counts cover all 52
C25_Witness ==
  /\ req.op = "list"
  /\ req.status = "active"
  /\ Len(hazards) = 52
  /\ res.total = 51
  /\ Len(res.hazards) = 50
  /\ res.hazards[1] = hazards[3]
  /\ res.hazards[50] = hazards[52]
  /\ res.active = 51
  /\ res.resolved = 1

-----------------------------------------------------------------------------
(* C26 *)

\* C26: a created hazard carries the confidence the report supplied, for
\* every supplied integer from 0 to 100, and 100 when none was supplied.
C26_ConfidenceAsSupplied ==
  AnsweredCreated =>
    res.hazard.confidence
      = IF req.confidence = undefinedNum THEN 100 ELSE req.confidence

-----------------------------------------------------------------------------
(* C27 *)

\* the fields of a record that are fixed at creation
createdFields(h) ==
  <<h.id, h.type, h.latitude, h.longitude, h.severity, h.confidence,
    h.reportedBy, h.timestamp>>

\* C27: no step changes the id, type, latitude, longitude, severity,
\* confidence, reportedBy or timestamp of an existing record; a resolve
\* answered Resolved changes only status, resolvedBy, resolvedAt and
\* resolvedImageUrl of the targeted record and leaves the other records and
\* the registry as they were; register_location, update_location and
\* disconnect leave the hazard list as it was.
C27_CreatedFieldsNeverChange ==
  [][ /\ Len(hazards') >= Len(hazards)
      /\ \A i \in 1..Len(hazards) :
           createdFields(hazards'[i]) = createdFields(hazards[i])
      /\ AnsweredResolved' =>
           LET t == targetOf(parseInt(req'.hazardId))
           IN  /\ Len(hazards') = Len(hazards)
               /\ \A i \in 1..Len(hazards) : i # t => hazards'[i] = hazards[i]
               /\ hazards'[t] =
                    [hazards[t] EXCEPT
                       !.status = hazards'[t].status,
                       !.resolvedBy = hazards'[t].resolvedBy,
                       !.resolvedAt = hazards'[t].resolvedAt,
                       !.resolvedImageUrl = hazards'[t].resolvedImageUrl]
               /\ activeUsers' = activeUsers
      /\ req'.op \in {"register_location", "update_location", "disconnect"}
           => hazards' = hazards
    ]_vars

\* one of two hazards was resolved while a user is registered: the other
\* is still active and the resolved one still names its reporter
C27_Witness ==
  /\ AnsweredResolved
  /\ Len(hazards) = 2
  /\ hazards[1].status = "resolved"
  /\ hazards[2].status = "active"
  /\ hazards[1].reportedBy = "d1"
  /\ Len(activeUsers) >= 1

-----------------------------------------------------------------------------
(* C28 *)

\* the registry entry of a user
entryOf(users, userId) ==
  users[CHOOSE i \in 1..Len(users) : users[i].userId = userId]

\* C28: after register_location, and after update_location for a user
\* with an entry, the entry holds the event's location; a step that is not
\* such an event for a user leaves the location of that user's entry as it
\* was; and a created hazard alerts a connection exactly when an entry
\* bound to it has its stored location within 1 km.
C28_LastLocationWins ==
  [][ /\ (\/ req'.op = "register_location"
          \/ req'.op = "update_location"
               /\ hasEntry(activeUsers, req'.userId)) =>
           /\ hasEntry(activeUsers', req'.userId)
           /\ entryOf(activeUsers', req'.userId).latitude = req'.latitude
           /\ entryOf(activeUsers', req'.userId).longitude = req'.longitude
      /\ \A u \in ManyUserIds :
           (/\ hasEntry(activeUsers, u)
            /\ hasEntry(activeUsers', u)
            /\ ~(req'.op \in {"register_location", "update_location"}
                  /\ req'.userId = u)) =>
             /\ entryOf(activeUsers', u).latitude = entryOf(activeUsers, u).latitude
             /\ entryOf(activeUsers', u).longitude = entryOf(activeUsers, u).longitude
      /\ AnsweredCreated' =>
           \A s \in ManySocketIds :
             (\E k \in 1..Len(emitted') :
                IsProximityAlert(emitted'[k]) /\ emitted'[k].to = s)
             <=> (\E i \in 1..Len(activeUsers') :
                    /\ activeUsers'[i].socketId = s
                    /\ Le(calculateDistance(activeUsers'[i].latitude,
                                            activeUsers'[i].longitude,
                                            res'.hazard.latitude,
                                            res'.hazard.longitude),
                          ALERT_RADIUS))
    ]_vars

\* an accepted update moved one user to 1001 m while the other user stays
\* at 1000 m
C28_Witness ==
  /\ req.op = "update_location"
  /\ hasEntry(activeUsers, req.userId)
  /\ req.latitude = ALERT_RADIUS + 1
  /\ entryOf(activeUsers, req.userId).latitude = ALERT_RADIUS + 1
  /\ \E i \in 1..Len(activeUsers) :
       /\ activeUsers[i].userId # req.userId
       /\ activeUsers[i].latitude = ALERT_RADIUS

-----------------------------------------------------------------------------
(* C29 *)

\* the points the handlers measure from: the last request's and the users'
measuredFrom ==
  (IF req.op \in {"report", "resolve", "register_location", "update_location"}
   THEN {<<req.latitude, req.longitude>>} ELSE {})
  \cup {<<activeUsers[i].latitude, activeUsers[i].longitude>> :
          i \in 1..Len(activeUsers)}

\* the points the handlers measure to: the hazards'
measuredTo ==
  {<<hazards[i].latitude, hazards[i].longitude>> : i \in 1..Len(hazards)}

-----------------------------------------------------------------------------
(* C30 *)

-----------------------------------------------------------------------------
(* C31 *)

\* C31: after a resolve request, every record that carries the request's
\* id and lies within 1 km of the resolver is resolved: an active one was
\* resolved by this request.
C31_ActiveRecordCanBeResolved ==
  ResolveAsked =>
    \A i \in 1..Len(hazards) :
      (/\ StrictEq(hazards[i].id, parseInt(req.hazardId))
       /\ Le(measured(req, hazards[i]), RESOLVE_RADIUS))
        => hazards[i].status = "resolved"

-----------------------------------------------------------------------------
(* C32 *)

\* C32: any two distinct records that are both active, of the same type
\* and less than RADIUS (0.1 km) apart were created at least TIME_WINDOW
\* (300 s) apart.
C32_ActiveNeighboursAWindowApart ==
  \A i, j \in 1..Len(hazards) :
    (/\ i < j
     /\ hazards[i].status = "active"
     /\ hazards[j].status = "active"
     /\ hazards[i].type = hazards[j].type
     /\ Lt(calculateDistance(hazards[i].latitude, hazards[i].longitude,
                             hazards[j].latitude, hazards[j].longitude),
           RADIUS))
      => hazards[j].timestamp - hazards[i].timestamp >= TIME_WINDOW

\* two active potholes at one place, the second created exactly
\* TIME_WINDOW after the first
C32_Witness ==
  /\ Len(hazards) = 2
  /\ hazards[1].status = "active"
  /\ hazards[2].status = "active"
  /\ hazards[1].type = hazards[2].type
  /\ hazards[1].latitude = hazards[2].latitude
  /\ hazards[1].longitude = hazards[2].longitude
  /\ hazards[2].timestamp - hazards[1].timestamp = TIME_WINDOW

-----------------------------------------------------------------------------
(* C33 *)

\* C33: a report answered duplicate:true leaves the hazard list and the
\* registry as they were, and its answer has no hazard field.
C33_DuplicateChangesNothing ==
  [][ AnsweredDuplicate' =>
        /\ hazards' = hazards
        /\ activeUsers' = activeUsers
        /\ "hazard" \notin DOMAIN res'
    ]_vars

\* a report was answered duplicate:true while a hazard is active and a user
\* is registered near it
C33_Witness ==
  /\ AnsweredDuplicate
  /\ "hazard" \notin DOMAIN res
  /\ \E i \in 1..Len(hazards) :
       /\ hazards[i].status = "active"
       /\ hazards[i].latitude = req.latitude
       /\ nearEntries(hazards[i]) # {}

-----------------------------------------------------------------------------
(* C34 *)

\* the fields of a record other than its status and resolution
keptFields(h) ==
  <<h.id, h.type, h.latitude, h.longitude, h.severity, h.confidence,
    h.imageUrl, h.timestamp, h.reportedBy>>

\* C34: no step removes or reorders a record: the list after a step is at
\* least as long, and each position that existed holds the same record up
\* to its status and resolution fields.
C34_ListIsAppendOnly ==
  [][ /\ Len(hazards') >= Len(hazards)
      /\ Len(hazards') <= Len(hazards) + 1
      /\ \A i \in 1..Len(hazards) :
           keptFields(hazards'[i]) = keptFields(hazards[i])
    ]_vars

\* a second record was appended behind a resolved first one
C34_Witness ==
  /\ AnsweredCreated
  /\ Len(hazards) = 2
  /\ hazards[1].status = "resolved"
  /\ hazards[2] = res.hazard
  /\ keptFields(hazards[1]) # keptFields(hazards[2])

-----------------------------------------------------------------------------
(* C35 *)

\* C35: a disconnect keeps every registry entry that is bound to another
\* connection, so the entry of a user who re-registered elsewhere stays;
\* a disconnect of a connection without an entry changes neither the
\* registry nor the hazard list and emits nothing; and a created hazard
\* alerts the connection of every entry within 1 km.
C35_DisconnectKeepsOtherConnections ==
  [][ /\ req'.op = "disconnect" =>
           /\ \A i \in 1..Len(activeUsers) :
                activeUsers[i].socketId # req'.socket =>
                  \E j \in 1..Len(activeUsers') :
                    activeUsers'[j] = activeUsers[i]
           /\ (\A i \in 1..Len(activeUsers) :
                 activeUsers[i].socketId # req'.socket) =>
                (activeUsers' = activeUsers /\ hazards' = hazards
                   /\ emitted' = <<>>)
      /\ AnsweredCreated' =>
           \A i \in 1..Len(activeUsers') :
             Le(calculateDistance(activeUsers'[i].latitude,
                                  activeUsers'[i].longitude,
                                  res'.hazard.latitude, res'.hazard.longitude),
                ALERT_RADIUS) =>
               \E k \in 1..Len(emitted') :
                 /\ IsProximityAlert(emitted'[k])
                 /\ emitted'[k].to = activeUsers'[i].socketId
    ]_vars

\* connection s1 has disconnected and the registry's first entry, bound to
\* the open connection s2, is still there behind no other
C35_Witness ==
  /\ req.op = "disconnect"
  /\ req.socket = "s1"
  /\ "s2" \in sockets
  /\ Len(activeUsers) = 1
  /\ activeUsers[1].socketId = "s2"

-----------------------------------------------------------------------------
(* C36 *)

\* the records the last handler sent out as hazards nearby: in the answer
\* of the nearby route and in the snapshots emitted
sentNearby ==
  (IF req.op = "nearby" /\ res.status = 200
   THEN {res.hazards[k].hazard : k \in 1..Len(res.hazards)} ELSE {})
  \cup UNION {{emitted[k].hazards[n].hazard : n \in 1..Len(emitted[k].hazards)} :
               k \in {m \in 1..Len(emitted) : IsNearbyHazards(emitted[m])}}

\* C36: a resolved record is in no snapshot and in no answer of the nearby
\* route, and a report answered duplicate:true is matched by a record that
\* is active, never by a resolved one.
C36_ResolvedIsOutOfSight ==
  /\ \A i \in 1..Len(hazards) :
       hazards[i].status = "resolved" => hazards[i] \notin sentNearby
  /\ \A h \in sentNearby : h.status = "active"
  /\ AnsweredDuplicate =>
       \E i \in 1..Len(hazards) :
         /\ hazards[i].status = "active"
         /\ hazards[i].type = req.type
         /\ Lt(measured(req, hazards[i]), RADIUS)
         /\ req.at - hazards[i].timestamp < TIME_WINDOW

\* the nearby route answered with the one active hazard while a resolved
\* one lies within 1 km of the asker as well
C36_Witness ==
  /\ req.op = "nearby"
  /\ res.status = 200
  /\ Len(res.hazards) = 1
  /\ \E i \in 1..Len(hazards) :
       /\ hazards[i].status = "resolved"
       /\ Le(measured(req, hazards[i]), NEARBY_RADIUS)

-----------------------------------------------------------------------------
(* C37 *)

\* C37: after an update_location of the client of App.js the entry bound
\* to the client's connection holds the location the update carried, and
\* no connection is bound to more than one entry.
C37_ClientUpdateMovesItsEntry ==
  /\ req.op = "update_location" =>
       \A i \in 1..Len(activeUsers) :
         activeUsers[i].socketId = req.socket =>
           /\ activeUsers[i].latitude = req.latitude
           /\ activeUsers[i].longitude = req.longitude
  /\ \A i, j \in 1..Len(activeUsers) :
       activeUsers[i].socketId = activeUsers[j].socketId => i = j

-----------------------------------------------------------------------------
(* C38 *)

\* the k-th registry entry within 1 km of hazard h, in registry order
kthNear(k, h) ==
  CHOOSE i \in nearEntries(h) :
    Cardinality({j \in nearEntries(h) : j <= i}) = k

-----------------------------------------------------------------------------
(* C39 *)

\* the calls of loadModels that are waiting at an await
inFlight(calls) ==
  {c \in 1..Len(calls) : calls[c].pc \in {"tfReady", "loadingModels"}}

\* C39: at most one call of loadModels is loading at any time, and the
\* flag is set exactly while one is; a call made while one is loading
\* returns false and starts nothing; the flag is cleared when the load
\* succeeds or fails; once both models are loaded they stay, and every
\* later call returns true and starts nothing.
C39_OneLoadInFlight ==
  [][ /\ Cardinality(inFlight(loadCalls')) <= 1
      /\ isLoadingModels' <=> inFlight(loadCalls') # {}
      /\ (Len(loadCalls') > Len(loadCalls) /\ inFlight(loadCalls) # {}) =>
           /\ loadCalls'[Len(loadCalls')].pc = "returned"
           /\ loadCalls'[Len(loadCalls')].result = FALSE
           /\ inFlight(loadCalls') = inFlight(loadCalls)
      /\ \A c \in inFlight(loadCalls) :
           c \notin inFlight(loadCalls') => ~isLoadingModels'
      /\ (objectModel # null /\ faceModel # null) =>
           /\ objectModel' = objectModel
           /\ faceModel' = faceModel
           /\ Len(loadCalls') > Len(loadCalls) =>
                /\ loadCalls'[Len(loadCalls')].pc = "returned"
                /\ loadCalls'[Len(loadCalls')].result = TRUE
                /\ inFlight(loadCalls') = {}
      /\ \A c \in 1..Len(loadCalls) :
           (loadCalls[c].pc = "loadingModels" /\ loadCalls'[c].pc = "returned"
              /\ loadCalls'[c].result)
             => (objectModel' # null /\ faceModel' # null)
    ]_vars

\* the first call failed, the second loaded the models while the third,
\* made during the load, was sent away with false, and the fourth, made
\* after it, got true
C39_Witness ==
  /\ Len(loadCalls) = 4
  /\ \A c \in 1..4 : loadCalls[c].pc = "returned"
  /\ <<loadCalls[1].result, loadCalls[2].result>> = <<FALSE, TRUE>>
  /\ <<loadCalls[3].result, loadCalls[4].result>> = <<FALSE, TRUE>>
  /\ objectModel # null
  /\ faceModel # null
  /\ ~isLoadingModels

====
